---- MODULE Spec2Model ----
(***************************************************************************)
(* Lumina Performance: the resilient fetch-and-normalize pipeline.         *)
(*                                                                         *)
(*   fetchWithRetry          src/services/lighthouseService.ts  15-54      *)
(*   fetchLighthouseMetrics  src/services/lighthouseService.ts  56-212     *)
(*   getAiAuditReport        src/services/geminiService.ts       7-40      *)
(*   handleRunAnalysis       src/App.tsx                        101-148    *)
(*                                                                         *)
(* One asynchronous flow is modelled.  pc names the await the flow is      *)
(* suspended at; every action runs the synchronous code from one await to  *)
(* the next (or to the return / throw that ends the call).                 *)
(*                                                                         *)
(* Numbers.  A JavaScript value that may be missing is a tagged record     *)
(* [t, v].  Source numbers (numericValue, score) are fixed point with four *)
(* decimals (v = number * Scale); transferSize is a whole number of bytes. *)
(* A delay is an exact rational <<n, d>> in lowest terms, d a power of 2.  *)
(***************************************************************************)
EXTENDS Integers, Sequences, FiniteSets, TLC

VARIABLES
    caller,         \* "fetchWithRetry": the function is called on its own; "App": the orchestrator runs
    pc,             \* the await the flow is suspended at, or "idle" / "done"
    retries,        \* fetchWithRetry: parameter retries
    initialBackoff, \* fetchWithRetry: parameter initialBackoff
    i,              \* fetchWithRetry: loop counter
    currentBackoff, \* fetchWithRetry: let currentBackoff
    lastError,      \* fetchWithRetry: let lastError
    branch,         \* fetchWithRetry: which sleep is pending, "429" (line 33) or "catch" (line 46)
    requests,       \* number of fetch(url) calls issued by the current call
    sleeps,         \* the sleep(ms) calls of the current call, in order
    outcomes,       \* the status answered to each request of the current call (0: it failed)
    rejected,       \* the error of the latest request that failed, NoError if none did
    response,       \* fetchLighthouseMetrics: const response (its status), 0 when unset
    data,           \* fetchLighthouseMetrics: const data
    result,         \* outcome of the call under study: [kind, response, error, report]
    status,         \* App: AnalysisStatus
    report,         \* App: report state
    apiError,       \* App: apiError state ("" is null)
    urlError,       \* App: urlError state
    aiCalls,        \* number of getAiAuditReport calls of the current run
    runs,           \* number of analysis runs started
    previous        \* a repeated call: the document, outcome and requests of the first call

fetchVars ==
    <<retries, initialBackoff, i, currentBackoff, lastError, branch, requests, sleeps, outcomes,
      rejected>>
appVars == <<status, report, apiError, urlError, aiCalls, runs, previous>>
vars == <<caller, pc, retries, initialBackoff, i, currentBackoff, lastError, branch,
          requests, sleeps, outcomes, rejected, response, data, result, status, report, apiError,
          urlError, aiCalls, runs, previous>>

-----------------------------------------------------------------------------
(* Bounds *)

MaxRetries == 5         \* largest retries argument of a direct fetchWithRetry call
MaxRuns == 2            \* analysis runs per behaviour
MaxItems == 7           \* longest resource-summary item list

(* Program constants *)

DefaultRetries == 7
DefaultInitialBackoff == 4000
RateLimitStatus == 429
JitterRange == 2000
Scale == 10 * 1000      \* fixed point: four decimals

-----------------------------------------------------------------------------
(* Exact rationals for delays *)

Rat(n) == <<n, 1>>

RECURSIVE Gcd(_, _)
Gcd(a, b) == IF b = 0 THEN a ELSE Gcd(b, a % b)

Norm(n, d) == LET g == Gcd(n, d) IN IF g = 0 THEN <<0, 1>> ELSE <<n \div g, d \div g>>

RatMul(r, n, d) == Norm(r[1] * n, r[2] * d)

-----------------------------------------------------------------------------
(* Errors.  An error object is [name, message, attempt, of]; attempt/of are *)
(* the numbers interpolated into the rate-limit message (line 25), and for  *)
(* an error thrown by fetch(url) attempt is the request that threw it.      *)

NoError == [name |-> "null", message |-> "", attempt |-> 0, of |-> 0]

RateLimitError(k, n) ==
    [name |-> "Error",
     message |-> "The Google PageSpeed API is currently under heavy load (429).",
     attempt |-> k, of |-> n]

\* mutant: nothing is put in place of a null lastError
NothingToThrow == NoError

GenericError ==
    [name |-> "Error", message |-> "Connection failed after multiple attempts.",
     attempt |-> 0, of |-> 0]

\* what fetch(url) can reject with: a TypeError whose text depends on the engine
TransportMessages == {"Failed to fetch", "Load failed"}

TransportError(m, k) == [name |-> "TypeError", message |-> m, attempt |-> k, of |-> 0]

\* the entry of outcomes for a request that failed at the network level
NetworkFailure == 0

\* the HTTP statuses the mocked endpoint answers with
Statuses == {200, 400, 403, 429, 500}

\* Math.random() * 2000 (line 29), sampled at both ends of its range
Jitters == {0, JitterRange - 1}

\* arguments of a direct call
InitialBackoffs == {DefaultInitialBackoff, 1000}

-----------------------------------------------------------------------------
(* fetchWithRetry, lines 15-54 *)

\* mutant: server errors are retried as well
IsRateLimitedOrServerError(st) == st = RateLimitStatus \/ st >= 500

\* mutant: a 429 is treated like any other response
IsRateLimitedNever(st) == FALSE

IsRateLimited(st) == st = RateLimitStatus

\* mutant: the last attempt sleeps as well
HasAttemptsLeftOffByOne(k, n) == k < n

HasAttemptsLeft(k, n) == k < n - 1

\* mutant: the rate-limit branch doubles like the network branch
RateLimitBackoffDoubling(b) == RatMul(b, 2, 1)

RateLimitBackoff(b) == RatMul(b, 5, 2)

\* mutant: the network branch keeps a delay of its own, doubled per network failure
NetworkBackoffOwnDelay(b) ==
    RatMul(Rat(initialBackoff),
           2 ^ Cardinality({j \in 1..Len(sleeps) : sleeps[j].after = "catch"}), 1)

\* mutant: the network branch grows like the rate-limit branch
NetworkBackoffAsRateLimit(b) == RatMul(b, 5, 2)

NetworkBackoff(b) == RatMul(b, 2, 1)

SleepEntry(b, j, br) == [base |-> b, jitter |-> j, after |-> br]

\* the argument of sleep(): currentBackoff + jitter (line 30), currentBackoff (line 46)
WaitTime(e) == Norm(e.base[1] + e.jitter * e.base[2], e.base[2])

\* throw lastError || new Error(...), line 53
\* mutant: the captured error is dropped
RaisedGeneric(e) == GenericError

\* mutant: the error of the first attempt wins when it was a rate limit
RaisedFirstSeen(e) ==
    IF Len(outcomes) >= 2 /\ outcomes[1] = RateLimitStatus THEN RateLimitError(1, retries) ELSE e

Raised(e) == IF e = NoError THEN GenericError ELSE e

-----------------------------------------------------------------------------
(* JavaScript values of the decoded document *)

Undefined == [t |-> "undefined", v |-> 0]
Null == [t |-> "null", v |-> 0]
NaN == [t |-> "NaN", v |-> 0]
Num(n) == [t |-> "number", v |-> n]

SUndefined == [t |-> "undefined", s |-> ""]
Str(x) == [t |-> "string", s |-> x]

\* x || 0 on a number-or-missing value
OrZero(x) == IF x.t = "number" /\ x.v # 0 THEN x ELSE Num(0)

\* x || fallback on a string-or-missing value
OrString(x, fallback) == IF x.t = "string" /\ x.s # "" THEN x.s ELSE fallback

\* Math.round(n / d) for n >= 0, d > 0: halves go up
Round(n, d) == (n \div d) + (IF 2 * (n % d) >= d THEN 1 ELSE 0)

\* an entry of lighthouse.audits
AbsentAudit ==
    [t |-> "undefined", numericValue |-> Undefined, score |-> Undefined,
     description |-> SUndefined, title |-> SUndefined]

NullAudit == [AbsentAudit EXCEPT !.t = "null"]

AuditObject(nv, sc, de, ti) ==
    [t |-> "object", numericValue |-> nv, score |-> sc, description |-> de, title |-> ti]

\* an entry of lighthouse.categories
AbsentCategory == [t |-> "undefined", score |-> Undefined]

CategoryObject(sc) == [t |-> "object", score |-> sc]

\* entry?.numericValue and the like
NumericValueOf(e) == IF e.t = "object" THEN e.numericValue ELSE Undefined
ScoreOf(e) == IF e.t = "object" THEN e.score ELSE Undefined
DescriptionOf(e) == IF e.t = "object" THEN e.description ELSE SUndefined
TitleOf(e) == IF e.t = "object" THEN e.title ELSE SUndefined

MetricAuditIds ==
    <<"first-contentful-paint", "largest-contentful-paint", "total-blocking-time",
      "cumulative-layout-shift">>

seoAuditIds ==
    <<"viewport", "document-title", "meta-description", "image-alt", "link-text",
      "http-status-code", "is-crawlable">>

accessibilityAuditIds ==
    <<"color-contrast", "document-title", "html-has-lang", "image-alt", "label",
      "link-name", "list", "listitem">>

colors == <<"#f59e0b", "#10b981", "#3b82f6", "#8b5cf6", "#64748b", "#ec4899">>

Range(q) == {q[k] : k \in 1..Len(q)}

AuditKeys ==
    Range(MetricAuditIds) \cup Range(seoAuditIds) \cup Range(accessibilityAuditIds)
        \cup {"total-byte-weight"}

CategoryKeys == {"performance", "seo", "accessibility"}

-----------------------------------------------------------------------------
(* fetchLighthouseMetrics, lines 102-205: the mapping of the document *)

\* mutant: the product is truncated
PercentTruncated(sc) == (OrZero(sc).v * 100) \div Scale

\* Math.round((x || 0) * 100) on a fractional score
Percent(sc) == Round(OrZero(sc).v * 100, Scale)

\* mutant: the || 0 is missing
SecondsValueNoDefault(nv) ==
    IF nv.t = "number" THEN Num(Round(nv.v, Scale * 10) * (Scale \div 100))
    ELSE IF nv.t = "null" THEN Num(0) ELSE NaN

\* parseFloat((nv / 1000).toFixed(2)) || 0, lines 110 and 118
SecondsValue(nv) ==
    LET quotient == IF nv.t = "number" THEN Num(nv.v)
                    ELSE IF nv.t = "null" THEN Num(0) ELSE NaN
        parsed == IF quotient.t = "number"
                  THEN Num(Round(quotient.v, Scale * 10) * (Scale \div 100))
                  ELSE NaN
    IN  OrZero(parsed)

\* Math.round(nv || 0), line 126
MillisValue(nv) == Num(Round(OrZero(nv).v, Scale) * Scale)

\* parseFloat((nv || 0).toFixed(3)), line 134
ShiftValue(nv) == Num(Round(OrZero(nv).v, Scale \div 1000) * (Scale \div 1000))

\* Math.round((score || 0) * 100) as a value, lines 142 and 150
PercentValue(sc) == Num(Percent(sc) * Scale)

FcpFallback ==
    "FCP measures how long it takes for the browser to render the first piece of DOM content."
LcpFallback ==
    "LCP marks the point in the page load timeline when the main content has likely loaded."
TbtFallback ==
    "TBT measures the total amount of time that a page is blocked from responding to user input."
ClsFallback ==
    "CLS measures the sum total of all individual layout shift scores for every unexpected layout shift."
SeoDescription ==
    "Lighthouse SEO audit score based on search engine optimization best practices."
AccessibilityDescription ==
    "Evaluates how accessible your website is for people with disabilities or impairments."

Metric(n, v, u, sc, c, d) ==
    [name |-> n, value |-> v, unit |-> u, score |-> sc, category |-> c, description |-> d]

\* lines 108-115
FirstContentfulPaint(audits) ==
    LET a == audits["first-contentful-paint"]
    IN  Metric("First Contentful Paint", SecondsValue(NumericValueOf(a)), "s",
               Percent(ScoreOf(a)), "speed", OrString(DescriptionOf(a), FcpFallback))

\* lines 116-123
LargestContentfulPaint(audits) ==
    LET a == audits["largest-contentful-paint"]
    IN  Metric("Largest Contentful Paint", SecondsValue(NumericValueOf(a)), "s",
               Percent(ScoreOf(a)), "speed", OrString(DescriptionOf(a), LcpFallback))

\* lines 124-131
TotalBlockingTime(audits) ==
    LET a == audits["total-blocking-time"]
    IN  Metric("Total Blocking Time", MillisValue(NumericValueOf(a)), "ms",
               Percent(ScoreOf(a)), "speed", OrString(DescriptionOf(a), TbtFallback))

\* lines 132-139
CumulativeLayoutShift(audits) ==
    LET a == audits["cumulative-layout-shift"]
    IN  Metric("Cumulative Layout Shift", ShiftValue(NumericValueOf(a)), "",
               Percent(ScoreOf(a)), "ux", OrString(DescriptionOf(a), ClsFallback))

\* lines 140-147
SeoScore(categories) ==
    LET c == categories["seo"]
    IN  Metric("SEO Score", PercentValue(ScoreOf(c)), "", Percent(ScoreOf(c)), "seo",
               SeoDescription)

\* lines 148-155
AccessibilityScore(categories) ==
    LET c == categories["accessibility"]
    IN  Metric("Accessibility Score", PercentValue(ScoreOf(c)), "", Percent(ScoreOf(c)),
               "accessibility", AccessibilityDescription)

\* mutant: a metric whose source entry is missing is left out
MetricsOfPresentEntries(audits, categories) ==
    LET all == << <<audits["first-contentful-paint"].t, FirstContentfulPaint(audits)>>,
                  <<audits["largest-contentful-paint"].t, LargestContentfulPaint(audits)>>,
                  <<audits["total-blocking-time"].t, TotalBlockingTime(audits)>>,
                  <<audits["cumulative-layout-shift"].t, CumulativeLayoutShift(audits)>>,
                  <<categories["seo"].t, SeoScore(categories)>>,
                  <<categories["accessibility"].t, AccessibilityScore(categories)>> >>
        kept == SelectSeq(all, LAMBDA e : e[1] = "object")
    IN  [k \in 1..Len(kept) |-> kept[k][2]]

\* const metrics, lines 107-156
Metrics(audits, categories) ==
    << FirstContentfulPaint(audits), LargestContentfulPaint(audits),
       TotalBlockingTime(audits), CumulativeLayoutShift(audits),
       SeoScore(categories), AccessibilityScore(categories) >>

\* audit?.score !== undefined ? Math.round(audit.score * 100) : null, lines 165 and 177
AuditScore(sc) ==
    IF sc.t # "undefined"
    THEN Num(Round((IF sc.t = "number" THEN sc.v ELSE 0) * 100, Scale))
    ELSE Null

\* the object built by the map callback, lines 160-167 and 172-179
DetailedAudit(id, audit) ==
    [id |-> id, title |-> OrString(TitleOf(audit), id), score |-> AuditScore(ScoreOf(audit)),
     description |-> OrString(DescriptionOf(audit), "")]

\* mutant: nothing is filtered out
KeepEveryAudit(a) == TRUE

\* .filter(a => a.score !== null), lines 168 and 180
KeepAudit(a) == a.score # Null

RECURSIVE SelectAudits(_)
SelectAudits(q) ==
    IF q = <<>> THEN <<>>
    ELSE IF KeepAudit(Head(q)) THEN <<Head(q)>> \o SelectAudits(Tail(q))
    ELSE SelectAudits(Tail(q))

DetailedAudits(ids, audits) ==
    SelectAudits([k \in 1..Len(ids) |-> DetailedAudit(ids[k], audits[ids[k]])])

\* Math.round((categories['performance']?.score || 0) * 100), line 182
OverallScore(categories) == Percent(ScoreOf(categories["performance"]))

\* an element of audits['resource-summary'].details.items; transferSize in bytes
Item(ty, la, sz) == [resourceType |-> ty, label |-> la, transferSize |-> sz]

\* audits['resource-summary']: the entry, its details, its items
ResourceSummary(e, d, it, list) == [t |-> e, details |-> d, items |-> it, list |-> list]

\* audits['resource-summary']?.details?.items || [], line 185
ResourceItems(rs) ==
    IF rs.t = "object" /\ rs.details = "object" /\ rs.items = "array" THEN rs.list ELSE <<>>

\* .filter(item => item.resourceType !== 'total'), line 189
RECURSIVE DropTotals(_)
DropTotals(q) ==
    IF q = <<>> THEN <<>>
    ELSE IF Head(q).resourceType # "total" THEN <<Head(q)>> \o DropTotals(Tail(q))
    ELSE DropTotals(Tail(q))

\* Math.round(item.transferSize / 1024), line 192
KiloBytes(sz) == IF sz.t = "number" THEN Num(Round(sz.v, 1024)) ELSE NaN

\* mutant: the color depends on the number of requests the fetch took
PaletteColorByAttempt(idx) == colors[((idx + requests) % Len(colors)) + 1]

\* colors[idx % colors.length], line 193; idx counts from 0
PaletteColor(idx) == colors[(idx % Len(colors)) + 1]

\* the map callback, lines 190-194
BreakdownEntry(item, idx) ==
    [name |-> item.label, value |-> KiloBytes(item.transferSize), color |-> PaletteColor(idx)]

\* mutant: the list is not capped
SliceNothing(q) == q

\* .slice(0, 6), line 195
SliceSix(q) == SubSeq(q, 1, IF Len(q) < 6 THEN Len(q) ELSE 6)

\* mutant: the list is cut to six source rows before the 'total' rows are dropped
MappedBreakdownCutFirst(rs) ==
    LET kept == DropTotals(SliceSix(ResourceItems(rs)))
    IN  [k \in 1..Len(kept) |-> BreakdownEntry(kept[k], k - 1)]

\* lines 188-195
MappedBreakdown(rs) ==
    LET kept == DropTotals(ResourceItems(rs))
    IN  SliceSix([k \in 1..Len(kept) |-> BreakdownEntry(kept[k], k - 1)])

\* mutant: the byte count is not converted to kilobytes
FallbackEntryInBytes(audits) ==
    [name |-> Str("Assets"),
     value |-> Num(Round(OrZero(NumericValueOf(audits["total-byte-weight"])).v, Scale)),
     color |-> "#3b82f6"]

\* the synthesized entry, line 203
FallbackEntry(audits) ==
    [name |-> Str("Assets"),
     value |-> Num(Round(OrZero(NumericValueOf(audits["total-byte-weight"])).v, 1024 * Scale)),
     color |-> "#3b82f6"]

\* resourceBreakdown.length > 0 ? resourceBreakdown : [ ... ], line 202
ResourceBreakdown(rs, audits) ==
    IF Len(MappedBreakdown(rs)) > 0 THEN MappedBreakdown(rs) ELSE <<FallbackEntry(audits)>>

\* the decoded body of a 2xx response
Document(lr, au, ca, audits, categories, rs) ==
    [lighthouseResult |-> lr, audits |-> au, categories |-> ca,
     audit |-> audits, category |-> categories, resourceSummary |-> rs]

\* the body {}
NoDocument ==
    Document("undefined", "undefined", "undefined", [k \in AuditKeys |-> AbsentAudit],
             [k \in CategoryKeys |-> AbsentCategory],
             ResourceSummary("undefined", "undefined", "undefined", <<>>))

\* const data before line 96 has run
Unread == [NoDocument EXCEPT !.lighthouseResult = "unread"]

NoReport ==
    [metrics |-> <<>>, seoAudits |-> <<>>, accessibilityAudits |-> <<>>,
     overallScore |-> 0, resourceBreakdown |-> <<>>]

SchemaError ==
    [name |-> "Error",
     message |-> "Analysis engine failed to return results. This often happens with sites that use heavy bot protection.",
     attempt |-> 0, of |-> 0]

\* what reading a property of undefined or null throws
PropertyError(key) ==
    [name |-> "TypeError", message |-> "Cannot read properties of undefined: " \o key,
     attempt |-> 0, of |-> 0]

Returned(rep) == [kind |-> "return", response |-> 0, error |-> NoError, report |-> rep]
Thrown(err) == [kind |-> "throw", response |-> 0, error |-> err, report |-> NoReport]
Pending == [kind |-> "none", response |-> 0, error |-> NoError, report |-> NoReport]

\* previous before any call has finished
NoCall == [data |-> Unread, result |-> Pending, requests |-> 0]

\* mutant: only an undefined lighthouseResult is refused
LacksResultStrictly(d) == d.lighthouseResult = "undefined"

\* !data.lighthouseResult, line 98
LacksResult(d) == d.lighthouseResult # "object"

\* audits['first-contentful-paint'] (line 110) needs audits to be an object
AuditsReadable(d) == d.audits = "object"

\* categories['seo'] (line 142) needs categories to be an object
CategoriesReadable(d) == d.categories = "object"

\* lines 98-205: the report returned, or the error thrown, for the document d
Normalize(d) ==
    IF LacksResult(d) THEN Thrown(SchemaError)
    ELSE IF ~AuditsReadable(d) THEN Thrown(PropertyError("first-contentful-paint"))
    ELSE IF ~CategoriesReadable(d) THEN Thrown(PropertyError("seo"))
    ELSE Returned([metrics |-> Metrics(d.audit, d.category),
                   seoAudits |-> DetailedAudits(seoAuditIds, d.audit),
                   accessibilityAudits |-> DetailedAudits(accessibilityAuditIds, d.audit),
                   overallScore |-> OverallScore(d.category),
                   resourceBreakdown |-> ResourceBreakdown(d.resourceSummary, d.audit)])

-----------------------------------------------------------------------------
(* The documents the mocked endpoint serves *)

NumericValues == {Undefined, Null, Num(0), Num(2345678), Num(1500004321)}
Scores == {Undefined, Null, Num(0), Num(8949), Num(8950), Num(Scale)}
Descriptions == {SUndefined, Str(""), Str("d")}
Titles == {SUndefined, Str("t")}

AuditEntries ==
    {AbsentAudit, NullAudit} \cup
    {AuditObject(nv, sc, de, ti) :
        nv \in NumericValues, sc \in Scores, de \in Descriptions, ti \in Titles}

CategoryEntries ==
    {AbsentCategory, [AbsentCategory EXCEPT !.t = "null"]} \cup
    {CategoryObject(sc) : sc \in Scores}

FullAudit == AuditObject(Num(2345678), Num(8949), Str("d"), Str("t"))

BaseAudits == {[k \in AuditKeys |-> AbsentAudit], [k \in AuditKeys |-> FullAudit]}

\* every entry of the base but one, which takes each shape in turn
AuditMaps ==
    {[b EXCEPT ![k] = e] : b \in BaseAudits, k \in AuditKeys, e \in AuditEntries}

BaseCategories ==
    {[k \in CategoryKeys |-> AbsentCategory], [k \in CategoryKeys |-> CategoryObject(Num(8949))]}

CategoryMaps == [CategoryKeys -> CategoryEntries]

ItemKinds ==
    {Item("total", Str("Total"), Num(500000)), Item("script", Str("Script"), Num(150000)),
     Item("image", Str("Image"), Num(1536))}

ItemLists == UNION {[1..n -> ItemKinds] : n \in 0..MaxItems}

FullSummary ==
    ResourceSummary("object", "object", "array",
        <<Item("total", Str("Total"), Num(500000)), Item("script", Str("Script"), Num(150000))>>)

ResourceSummaries ==
    {ResourceSummary("undefined", "undefined", "undefined", <<>>),
     ResourceSummary("null", "undefined", "undefined", <<>>),
     ResourceSummary("object", "undefined", "undefined", <<>>),
     ResourceSummary("object", "object", "undefined", <<>>)} \cup
    {ResourceSummary("object", "object", "array", l) : l \in ItemLists}

Tags == {"undefined", "null", "object"}

\* documents without lighthouseResult: nothing can be nested below it
MissingResultDocs == {[NoDocument EXCEPT !.lighthouseResult = t] : t \in {"undefined", "null"}}

\* documents with lighthouseResult, with or without its audits and categories maps
ShapeDocs ==
    {Document("object", au, ca,
              IF au = "object" THEN a ELSE NoDocument.audit,
              IF ca = "object" THEN c ELSE NoDocument.category,
              IF au = "object" THEN FullSummary ELSE NoDocument.resourceSummary) :
        au \in Tags, ca \in Tags, a \in BaseAudits, c \in BaseCategories}

\* documents that differ in one audit entry
AuditDocs ==
    {Document("object", "object", "object", a, c, FullSummary) :
        a \in AuditMaps, c \in BaseCategories}

\* documents that differ in their category entries
CategoryDocs ==
    {Document("object", "object", "object", a, c, FullSummary) :
        a \in BaseAudits, c \in CategoryMaps}

\* documents that differ in their resource summary
ResourceDocs ==
    {Document("object", "object", "object", a, c, rs) :
        a \in BaseAudits, c \in BaseCategories, rs \in ResourceSummaries}

\* resource summaries that yield no entry: items absent, empty, or 'total' rows only
EmptySummaries ==
    {rs \in ResourceSummaries : \A k \in 1..Len(rs.list) : rs.list[k].resourceType = "total"}

\* documents without a usable item, whose total-byte-weight entry takes each shape
WeightDocs ==
    {Document("object", "object", "object", [b EXCEPT !["total-byte-weight"] = e], c, rs) :
        b \in BaseAudits, e \in AuditEntries, c \in {[k \in CategoryKeys |-> AbsentCategory]},
        rs \in {r \in EmptySummaries : Len(r.list) <= 2}}

\* the documents served to the orchestrator
PipelineDocs ==
    MissingResultDocs \cup
    {d \in ShapeDocs : d.audit \in {NoDocument.audit, [k \in AuditKeys |-> FullAudit]}
                       /\ d.category \in {NoDocument.category,
                                          [k \in CategoryKeys |-> CategoryObject(Num(8949))]}
                       /\ (d.audits = "object" /\ d.categories = "object"
                             => (d.audit = NoDocument.audit <=> d.category = NoDocument.category))
                       /\ "null" \notin {d.audits, d.categories}}

-----------------------------------------------------------------------------
(* App.tsx: the orchestrator's values *)

NullReport ==
    [t |-> "null", metrics |-> <<>>, seoAudits |-> <<>>, accessibilityAudits |-> <<>>,
     overallScore |-> 0, resourceBreakdown |-> <<>>, aiInsights |-> ""]

\* const newReport, lines 126-136 (id, url and timestamp left out)
NewReport(rep, text) ==
    [t |-> "object", metrics |-> rep.metrics, seoAudits |-> rep.seoAudits,
     accessibilityAudits |-> rep.accessibilityAudits, overallScore |-> rep.overallScore,
     resourceBreakdown |-> rep.resourceBreakdown, aiInsights |-> text]

\* sample contents of the URL box when the form is submitted
Urls == {"", "not a url", "example.com"}

\* validateUrl, lines 82-99, on the sample inputs
validateUrl(u) ==
    IF u = "" THEN "Please enter a URL"
    ELSE IF u = "not a url" THEN "Please enter a valid website address (e.g., example.com)"
    ELSE ""

\* const isScanning, line 180
isScanning == status \in {"SCANNING", "ANALYZING_AI"}

\* err.message || "An unexpected error occurred during analysis.", line 145
ErrorText(err) ==
    IF err.message # "" THEN err.message ELSE "An unexpected error occurred during analysis."

-----------------------------------------------------------------------------
(* geminiService.ts: getAiAuditReport, lines 26-39 *)

AiTexts == {"", "insights"}

\* mutant: an empty text is returned as it is
AiReturnRaw(text) == text

\* response.text || "Unable to generate AI insights at this time.", line 35
AiReturn(text) == IF text # "" THEN text ELSE "Unable to generate AI insights at this time."

\* the catch branch, line 38
AiFallback == "Error generating AI insights. Please check your connectivity and try again."

-----------------------------------------------------------------------------
(* fetchLighthouseMetrics, lines 79-94 and 206-211 *)

\* response.ok
Ok(st) == st >= 200 /\ st <= 299

\* errorData.error?.message || `Status: ${response.status}`, line 84
ErrorBodies == {"", "API key not valid"}

StatusMessage(body, st) == IF body # "" THEN body ELSE "Status: " \o ToString(st)

\* the error thrown for a response that is not ok, lines 86-93
StatusError(st, body) ==
    [name |-> "Error",
     message |->
        IF st = 400
        THEN "Bad Request: " \o StatusMessage(body, st) \o ". Ensure the URL is valid and public."
        ELSE IF st = 403
        THEN "Access Forbidden: Google's crawlers might be blocked, or the API key is restricted."
        ELSE IF st = 429
        THEN "Maximum rate limit reached. The Google PageSpeed API is extremely congested. Please wait 2-3 minutes and try again."
        ELSE "PageSpeed API Error: " \o StatusMessage(body, st),
     attempt |-> 0, of |-> 0]

ConnectivityError ==
    [name |-> "Error",
     message |-> "Network connectivity issue: Unable to reach Google's PageSpeed servers. Check your connection or VPN settings.",
     attempt |-> 0, of |-> 0]

\* the catch of fetchLighthouseMetrics, lines 206-211
Relabel(err) ==
    IF err.name = "TypeError" /\ err.message = "Failed to fetch" THEN ConnectivityError ELSE err

\* what response.json() throws on a body that is not JSON
BodyError ==
    [name |-> "SyntaxError", message |-> "Unexpected token in JSON", attempt |-> 0, of |-> 0]

-----------------------------------------------------------------------------
(* How a finished call continues in its caller *)

\* fetchLighthouseMetrics ends with out; in App.tsx line 118 resumes (lines 120-124)
\* or the catch runs (lines 143-147)
LeaveFetchLighthouseMetrics(out) ==
    /\ result' = out
    /\ IF caller = "App"
       THEN IF out.kind = "return"
            THEN /\ status' = "ANALYZING_AI"
                 /\ aiCalls' = aiCalls + 1
                 /\ pc' = "ai"
                 /\ UNCHANGED <<report, apiError>>
            ELSE /\ apiError' = ErrorText(out.error)
                 /\ status' = "ERROR"
                 /\ pc' = "idle"
                 /\ UNCHANGED <<report, aiCalls>>
       ELSE /\ pc' = "done"
            /\ UNCHANGED <<status, report, apiError, aiCalls>>
    /\ UNCHANGED <<urlError, runs, previous>>

\* fetchWithRetry returns the response st (line 41); line 82 follows
ReturnResponse(st) ==
    IF caller = "fetchWithRetry"
    THEN /\ result' = [Pending EXCEPT !.kind = "return", !.response = st]
         /\ pc' = "done"
         /\ UNCHANGED <<response, data>>
         /\ UNCHANGED appVars
    ELSE /\ response' = st
         /\ pc' = IF Ok(st) THEN "json" ELSE "errorJson"
         /\ UNCHANGED <<data, result>>
         /\ UNCHANGED appVars

\* fetchWithRetry throws (line 53); the catch of line 206 follows
ThrowError(err) ==
    IF caller = "fetchWithRetry"
    THEN /\ result' = Thrown(err)
         /\ pc' = "done"
         /\ UNCHANGED <<response, data>>
         /\ UNCHANGED appVars
    ELSE /\ UNCHANGED <<response, data>>
         /\ LeaveFetchLighthouseMetrics(Thrown(Relabel(err)))

\* mutant: the call issues two requests at once
EnterFetchWithRetryTwice(n, b) ==
    /\ retries' = n
    /\ initialBackoff' = b
    /\ lastError' = NoError
    /\ currentBackoff' = Rat(b)
    /\ i' = 0
    /\ branch' = ""
    /\ sleeps' = <<>>
    /\ outcomes' = <<>>
    /\ rejected' = NoError
    /\ requests' = IF 0 < n THEN 2 ELSE 0

\* lines 16-19: the locals of a call with arguments n and b, and the first
\* request (line 21) unless the loop is empty
EnterFetchWithRetry(n, b) ==
    /\ retries' = n
    /\ initialBackoff' = b
    /\ lastError' = NoError
    /\ currentBackoff' = Rat(b)
    /\ i' = 0
    /\ branch' = ""
    /\ sleeps' = <<>>
    /\ outcomes' = <<>>
    /\ rejected' = NoError
    /\ requests' = IF 0 < n THEN 1 ELSE 0

\* i++ and the loop test (line 19): the next request (line 21), or line 53
LoopContinue(err) ==
    /\ i' = i + 1
    /\ IF i + 1 < retries
       THEN /\ requests' = requests + 1
            /\ pc' = "fetch"
            /\ UNCHANGED <<response, data, result>>
            /\ UNCHANGED appVars
       ELSE /\ requests' = requests
            /\ ThrowError(Raised(err))

-----------------------------------------------------------------------------
(* Actions of fetchWithRetry *)

\* a direct call fetchWithRetry(url, n, b)
CallFetchWithRetry ==
    /\ caller = "fetchWithRetry"
    /\ pc = "call"
    /\ \E n \in 0..MaxRetries, b \in InitialBackoffs :
          /\ EnterFetchWithRetry(n, b)
          /\ IF 0 < n
             THEN /\ pc' = "fetch"
                  /\ UNCHANGED <<response, data, result>>
                  /\ UNCHANGED appVars
             ELSE ThrowError(Raised(NoError))
    /\ UNCHANGED caller

\* await fetch(url) resolves with a response of status st: lines 23-42
FetchResolve(st) ==
    /\ pc = "fetch"
    /\ outcomes' = Append(outcomes, st)
    /\ UNCHANGED rejected
    /\ IF IsRateLimited(st)
       THEN /\ lastError' = RateLimitError(i + 1, retries)
            /\ IF HasAttemptsLeft(i, retries)
               THEN /\ \E j \in Jitters :
                          sleeps' = Append(sleeps, SleepEntry(currentBackoff, j, "429"))
                    /\ branch' = "429"
                    /\ pc' = "sleep"
                    /\ UNCHANGED <<i, requests, response, data, result>>
                    /\ UNCHANGED appVars
               ELSE /\ LoopContinue(RateLimitError(i + 1, retries))
                    /\ UNCHANGED <<sleeps, branch>>
            /\ UNCHANGED <<currentBackoff>>
       ELSE /\ ReturnResponse(st)
            /\ UNCHANGED <<i, currentBackoff, lastError, branch, requests, sleeps>>
    /\ UNCHANGED <<caller, retries, initialBackoff>>

\* await fetch(url) rejects with a TypeError of message m: lines 43-50
FetchReject(m) ==
    /\ pc = "fetch"
    /\ outcomes' = Append(outcomes, NetworkFailure)
    /\ rejected' = TransportError(m, requests)
    /\ lastError' = TransportError(m, requests)
    /\ IF HasAttemptsLeft(i, retries)
       THEN /\ sleeps' = Append(sleeps, SleepEntry(currentBackoff, 0, "catch"))
            /\ branch' = "catch"
            /\ pc' = "sleep"
            /\ UNCHANGED <<i, requests, response, data, result>>
            /\ UNCHANGED appVars
       ELSE /\ LoopContinue(TransportError(m, requests))
            /\ UNCHANGED <<sleeps, branch>>
    /\ UNCHANGED <<caller, retries, initialBackoff, currentBackoff>>

\* await sleep(...) ends: lines 36-37 or 47-48, then the next iteration
SleepDone ==
    /\ pc = "sleep"
    /\ currentBackoff' = IF branch = "429" THEN RateLimitBackoff(currentBackoff)
                         ELSE NetworkBackoff(currentBackoff)
    /\ LoopContinue(lastError)
    /\ UNCHANGED <<caller, retries, initialBackoff, lastError, branch, sleeps, outcomes,
                   rejected>>

FetchResolves(S) == \E st \in S : FetchResolve(st)

FetchRejects == \E m \in TransportMessages : FetchReject(m)

-----------------------------------------------------------------------------
(* Actions of fetchLighthouseMetrics *)

\* a direct call fetchLighthouseMetrics(url): lines 57-80, fetchWithRetry(fullUrl)
CallFetchLighthouseMetrics ==
    /\ caller = "fetchLighthouseMetrics"
    /\ pc = "call"
    /\ EnterFetchWithRetry(DefaultRetries, DefaultInitialBackoff)
    /\ pc' = "fetch"
    /\ UNCHANGED <<caller, response, data, result>>
    /\ UNCHANGED appVars

\* a second call fetchLighthouseMetrics(url) once the first has finished; the caller
\* keeps what the first call read and returned
CallFetchLighthouseMetricsAgain ==
    /\ caller = "fetchLighthouseMetrics"
    /\ pc = "done"
    /\ previous = NoCall
    /\ previous' = [data |-> data, result |-> result, requests |-> requests]
    /\ EnterFetchWithRetry(DefaultRetries, DefaultInitialBackoff)
    /\ pc' = "fetch"
    /\ response' = 0
    /\ data' = Unread
    /\ result' = Pending
    /\ UNCHANGED <<caller, status, report, apiError, urlError, aiCalls, runs>>

\* await response.json().catch(() => ({})) of a response that is not ok: lines 83-93
ReadErrorBody ==
    /\ pc = "errorJson"
    /\ \E body \in ErrorBodies :
          LeaveFetchLighthouseMetrics(Thrown(Relabel(StatusError(response, body))))
    /\ UNCHANGED <<caller, response, data>>
    /\ UNCHANGED fetchVars

\* await response.json() yields a document of D: lines 96-205
ReadBody(D) ==
    /\ pc = "json"
    /\ \E d \in D :
          /\ data' = d
          /\ LeaveFetchLighthouseMetrics(
                IF Normalize(d).kind = "throw"
                THEN Thrown(Relabel(Normalize(d).error)) ELSE Normalize(d))
    /\ UNCHANGED <<caller, response>>
    /\ UNCHANGED fetchVars

\* await response.json() rejects: the body is not JSON (line 96)
ReadBodyFails ==
    /\ pc = "json"
    /\ LeaveFetchLighthouseMetrics(Thrown(Relabel(BodyError)))
    /\ UNCHANGED <<caller, response, data>>
    /\ UNCHANGED fetchVars

-----------------------------------------------------------------------------
(* Actions of App.tsx *)

\* the form is submitted with u in the URL box: handleRunAnalysis, lines 101-118
HandleRunAnalysis ==
    /\ caller = "App"
    /\ pc = "idle"
    /\ ~isScanning
    /\ runs < MaxRuns
    /\ \E u \in Urls :
          IF validateUrl(u) # ""
          THEN /\ urlError' = validateUrl(u)
               /\ UNCHANGED <<pc, status, apiError, runs, aiCalls, response, data, result>>
               /\ UNCHANGED fetchVars
          ELSE /\ urlError' = ""
               /\ apiError' = ""
               /\ status' = "SCANNING"
               /\ runs' = runs + 1
               /\ aiCalls' = 0
               /\ EnterFetchWithRetry(DefaultRetries, DefaultInitialBackoff)
               /\ response' = 0
               /\ data' = Unread
               /\ result' = Pending
               /\ pc' = "fetch"
    /\ UNCHANGED <<caller, report, previous>>

\* await ai.models.generateContent resolves with text; App.tsx lines 126-142 follow
AiResolve ==
    /\ pc = "ai"
    /\ \E text \in AiTexts : report' = NewReport(result.report, AiReturn(text))
    /\ status' = "COMPLETED"
    /\ pc' = "idle"
    /\ UNCHANGED <<caller, apiError, urlError, aiCalls, runs, previous, response, data, result>>
    /\ UNCHANGED fetchVars

\* await ai.models.generateContent rejects; the catch of line 36, then lines 126-142
AiReject ==
    /\ pc = "ai"
    /\ report' = NewReport(result.report, AiFallback)
    /\ status' = "COMPLETED"
    /\ pc' = "idle"
    /\ UNCHANGED <<caller, apiError, urlError, aiCalls, runs, previous, response, data, result>>
    /\ UNCHANGED fetchVars

-----------------------------------------------------------------------------
(* Specifications *)

Start(c, p) ==
    /\ caller = c
    /\ pc = p
    /\ retries = 0
    /\ initialBackoff = 0
    /\ i = 0
    /\ currentBackoff = Rat(0)
    /\ lastError = NoError
    /\ branch = ""
    /\ requests = 0
    /\ sleeps = <<>>
    /\ outcomes = <<>>
    /\ rejected = NoError
    /\ response = 0
    /\ data = Unread
    /\ result = Pending
    /\ status = "IDLE"
    /\ report = NullReport
    /\ apiError = ""
    /\ urlError = ""
    /\ aiCalls = 0
    /\ runs = 0
    /\ previous = NoCall

\* the application: a user drives the orchestrator
Init == Start("App", "idle")

Next ==
    \/ HandleRunAnalysis
    \/ FetchResolves(Statuses)
    \/ FetchRejects
    \/ SleepDone
    \/ ReadErrorBody
    \/ ReadBody(PipelineDocs)
    \/ ReadBodyFails
    \/ AiResolve
    \/ AiReject

Spec == Init /\ [][Next]_vars

\* fetchWithRetry called on its own, with every argument pair
InitFetch == Start("fetchWithRetry", "call")

NextFetch ==
    \/ CallFetchWithRetry
    \/ FetchResolves(Statuses)
    \/ FetchRejects
    \/ SleepDone

SpecFetch == InitFetch /\ [][NextFetch]_vars

\* the same call when every awaited fetch(url) and sleep(ms) settles
SpecFetchFair == SpecFetch /\ WF_vars(NextFetch)

\* fetchLighthouseMetrics called on its own against an endpoint that answers 200
InitNormalize == Start("fetchLighthouseMetrics", "call")

NextNormalize ==
    \/ CallFetchLighthouseMetrics
    \/ FetchResolves({200})
    \/ ReadBody(MissingResultDocs \cup ShapeDocs)
    \/ ReadBody(AuditDocs)
    \/ ReadBody(CategoryDocs)
    \/ ReadBody(ResourceDocs)
    \/ ReadBody(WeightDocs)
    \/ ReadBodyFails

SpecNormalize == InitNormalize /\ [][NextNormalize]_vars

\* fetchLighthouseMetrics called twice against an endpoint that may answer 429 any
\* number of times before it answers 200
NextRepeat ==
    \/ CallFetchLighthouseMetrics
    \/ CallFetchLighthouseMetricsAgain
    \/ FetchResolves({200, RateLimitStatus})
    \/ SleepDone
    \/ ReadBody(PipelineDocs)
    \/ ReadBodyFails

SpecRepeat == InitNormalize /\ [][NextRepeat]_vars

-----------------------------------------------------------------------------
(* Properties of fetchWithRetry, checked under SpecFetch *)

Last(q) == q[Len(q)]

\* the base delay b is a times the base delay of 2 * c: b = a * (5 / 2) when c = 5
Scaled(a, b, n, d) == b[1] * a[2] * d = a[1] * b[2] * n

\* the first k answers were 429 and answer k + 1 is a response of another status
RateLimitedThenAnswered ==
    /\ Len(outcomes) >= 1
    /\ \A j \in 1..(Len(outcomes) - 1) : outcomes[j] = RateLimitStatus
    /\ Last(outcomes) \notin {NetworkFailure, RateLimitStatus}

\* C1: when the first k answers are 429 and answer k + 1 is not (k < retries), the
\* call returns answer k + 1 after exactly k sleeps and k + 1 requests; the first
\* sleep's base delay is initialBackoff and each later one is 2.5 times the one before.
C1_RateLimitThenReturn ==
    RateLimitedThenAnswered =>
        /\ pc = "done"
        /\ result.kind = "return"
        /\ result.response = Last(outcomes)
        /\ requests = Len(outcomes)
        /\ Len(outcomes) <= retries
        /\ Len(sleeps) = Len(outcomes) - 1
        /\ \A j \in 1..Len(sleeps) :
              /\ sleeps[j].after = "429"
              /\ sleeps[j].jitter >= 0 /\ sleeps[j].jitter < JitterRange
              /\ IF j = 1 THEN sleeps[j].base = Rat(initialBackoff)
                 ELSE Scaled(sleeps[j - 1].base, sleeps[j].base, 5, 2)

C1_Witness ==
    /\ pc = "done"
    /\ outcomes = <<429, 429, 200>>
    /\ result.kind = "return" /\ result.response = 200
    /\ Len(sleeps) = 2
    /\ sleeps[1].base = <<4000, 1>> /\ sleeps[2].base = <<10000, 1>>

\* every answer so far was a network-level failure
OnlyFailures == \A j \in 1..Len(outcomes) : outcomes[j] = NetworkFailure

\* C2: when every request fails at the network level and retries = N >= 1, exactly N
\* requests are issued with N - 1 sleeps between them, and the call then throws the
\* error of the N-th request, which is not null.
C2_NetworkFailuresExhaust ==
    (pc # "call" /\ retries >= 1 /\ OnlyFailures) =>
        /\ requests <= retries
        /\ (pc = "done" <=> Len(outcomes) = retries)
        /\ pc = "done" =>
              /\ requests = retries
              /\ Len(sleeps) = retries - 1
              /\ \A j \in 1..Len(sleeps) : sleeps[j].after = "catch" /\ sleeps[j].jitter = 0
              /\ result.kind = "throw"
              /\ result.error # NoError
              /\ result.error = rejected
              /\ result.error.name = "TypeError"
              /\ result.error.attempt = retries

C2_Witness ==
    /\ pc = "done" /\ retries = 3 /\ OnlyFailures
    /\ requests = 3 /\ Len(sleeps) = 2
    /\ result.kind = "throw" /\ result.error = TransportError("Failed to fetch", 3)

\* C3: when the last permitted attempt is answered 429, the rate-limit error of that
\* attempt is thrown with no sleep after it; with retries = 1 and a first answer of
\* 429 that is one request and no sleep at all.
C3_LastAttemptRateLimited ==
    (retries >= 1 /\ Len(outcomes) = retries /\ Last(outcomes) = RateLimitStatus) =>
        /\ pc = "done"
        /\ result.kind = "throw"
        /\ result.error = RateLimitError(retries, retries)
        /\ requests = retries
        /\ Len(sleeps) = retries - 1
        /\ (retries = 1 => sleeps = <<>> /\ requests = 1)

C3_Witness ==
    /\ retries = 1 /\ outcomes = <<RateLimitStatus>>
    /\ pc = "done" /\ result.kind = "throw" /\ result.error = RateLimitError(1, 1)
    /\ sleeps = <<>> /\ requests = 1

-----------------------------------------------------------------------------
(* Properties of the pipeline, checked under Spec *)

\* C4: a response whose status is not 429 is returned from the attempt that received
\* it, with no sleep and no request after it; a 400 or 403 on the first attempt reaches
\* the orchestrator (status ERROR) after exactly one request and no sleep.
C4_OtherStatusReturnedAtOnce ==
    (Len(outcomes) >= 1 /\ Last(outcomes) \notin {NetworkFailure, RateLimitStatus}) =>
        /\ pc \notin {"fetch", "sleep"}
        /\ response = Last(outcomes)
        /\ requests = Len(outcomes)
        /\ Len(sleeps) = Len(outcomes) - 1
        /\ \A j \in 1..(Len(outcomes) - 1) : outcomes[j] \in {NetworkFailure, RateLimitStatus}
        /\ (Len(outcomes) = 1 /\ response \in {400, 403} /\ pc = "idle") =>
              /\ status = "ERROR"
              /\ requests = 1
              /\ sleeps = <<>>
              /\ result.kind = "throw"
              /\ apiError = result.error.message

C4_Witness ==
    /\ pc = "idle" /\ status = "ERROR"
    /\ outcomes = <<403>>
    /\ requests = 1 /\ sleeps = <<>>
    /\ apiError =
         "Access Forbidden: Google's crawlers might be blocked, or the API key is restricted."

\* C5: reading a document without lighthouseResult makes fetchLighthouseMetrics throw
\* the schema error and return no report; the orchestrator goes to ERROR with that
\* message, leaves its report state as it was and never calls the summarizer.
C5_MissingResultFails ==
    [][(pc = "json" /\ data'.lighthouseResult \in {"undefined", "null"}) =>
          /\ result'.kind = "throw"
          /\ result'.error = SchemaError
          /\ result'.report = NoReport
          /\ status' = "ERROR"
          /\ apiError' = SchemaError.message
          /\ report' = report
          /\ aiCalls' = aiCalls
          /\ pc' = "idle"]_vars

C5_Witness ==
    /\ pc = "idle" /\ status = "ERROR"
    /\ data.lighthouseResult = "null"
    /\ result.kind = "throw" /\ result.error = SchemaError /\ result.report = NoReport
    /\ runs = 2
    /\ report.t = "object" /\ report.aiInsights = "insights"
    /\ aiCalls = 0

-----------------------------------------------------------------------------
(* Properties of the normalization, checked under SpecNormalize *)

Missing(x) == x.t \in {"undefined", "null"}

FixedMetricNames ==
    <<"First Contentful Paint", "Largest Contentful Paint", "Total Blocking Time",
      "Cumulative Layout Shift", "SEO Score", "Accessibility Score">>

FallbackSentences == <<FcpFallback, LcpFallback, TbtFallback, ClsFallback>>

CategoryIds == <<"seo", "accessibility">>

CategorySentences == <<SeoDescription, AccessibilityDescription>>

\* C6: a missing lighthouseResult is the only hard failure: every document that has
\* lighthouseResult is normalized to a report, whatever is absent below it.
C6_OnlyMissingResultFails ==
    (pc = "done" /\ data.lighthouseResult = "object") => result.kind = "return"

\* C7: every returned report has exactly the six fixed metrics, in the fixed order,
\* whichever audit and category entries are present.
C7_SixFixedMetrics ==
    result.kind = "return" =>
        /\ Len(result.report.metrics) = 6
        /\ [k \in 1..Len(result.report.metrics) |-> result.report.metrics[k].name]
              = FixedMetricNames

C7_Witness ==
    /\ pc = "done" /\ result.kind = "return"
    /\ data.audit["first-contentful-paint"].t = "undefined"
    /\ data.audit["total-blocking-time"].t = "undefined"
    /\ data.category["seo"].t = "undefined"
    /\ Len(result.report.metrics) = 6
    /\ result.report.metrics[1].name = "First Contentful Paint"
    /\ result.report.metrics[5].name = "SEO Score"

\* C8 as claimed: when the audit entry or its numericValue (the category entry or its
\* score) is absent, the metric has value 0, score 0 and the fallback description.
C8_AllDefaultsTogether ==
    (result.kind = "return" /\ Len(result.report.metrics) = 6) =>
        /\ \A k \in 1..4 :
              LET e == data.audit[MetricAuditIds[k]]
                  m == result.report.metrics[k]
              IN  (e.t # "object" \/ e.numericValue.t = "undefined") =>
                     m.value = Num(0) /\ m.score = 0 /\ m.description = FallbackSentences[k]
        /\ \A k \in 1..2 :
              LET c == data.category[CategoryIds[k]]
                  m == result.report.metrics[4 + k]
              IN  (c.t # "object" \/ c.score.t = "undefined") =>
                     m.value = Num(0) /\ m.score = 0 /\ m.description = CategorySentences[k]

\* C8 as amended: each field of a metric defaults on its own.  A missing audit entry
\* gives value 0, score 0 and the fallback sentence; a missing numericValue gives value
\* 0, a missing score gives score 0, a missing or empty description gives the fallback
\* sentence; a missing category entry or score gives value 0 and score 0.  The value is
\* always a number, and a metric whose entry is complete does not depend on the others.
C8_DefaultsPerField ==
    (result.kind = "return" /\ Len(result.report.metrics) = 6) =>
        /\ \A k \in 1..4 :
              LET e == data.audit[MetricAuditIds[k]]
                  m == result.report.metrics[k]
              IN  /\ m.value.t = "number"
                  /\ e.t # "object" =>
                        m.value = Num(0) /\ m.score = 0 /\ m.description = FallbackSentences[k]
                  /\ (e.t = "object" /\ Missing(e.numericValue)) => m.value = Num(0)
                  /\ (e.t = "object" /\ Missing(e.score)) => m.score = 0
                  /\ (e.t = "object" /\ e.description \in {SUndefined, Str("")}) =>
                        m.description = FallbackSentences[k]
                  /\ e = FullAudit =>
                        /\ m.value = Num(<<2300, 2300, 2350000, 2345680>>[k])
                        /\ m.score = 89
                        /\ m.description = "d"
        /\ \A k \in 1..2 :
              LET c == data.category[CategoryIds[k]]
                  m == result.report.metrics[4 + k]
              IN  /\ m.value.t = "number"
                  /\ m.description = CategorySentences[k]
                  /\ (c.t # "object" \/ Missing(c.score)) => m.value = Num(0) /\ m.score = 0
                  /\ c = CategoryObject(Num(8949)) => m.value = Num(890000) /\ m.score = 89

C8_Witness ==
    /\ pc = "done" /\ result.kind = "return"
    /\ data.audit["first-contentful-paint"] = AuditObject(Undefined, Num(8949), Str("d"), Str("t"))
    /\ result.report.metrics[1].value = Num(0)
    /\ result.report.metrics[1].score = 89
    /\ result.report.metrics[1].description = "d"
    /\ result.report.metrics[2].value = Num(2300)

\* the ids whose source audit carries a score (one that is not undefined), in order
ScoredIds(ids) ==
    SelectSeq(ids, LAMBDA x : data.audit[x].t = "object" /\ data.audit[x].score.t # "undefined")

\* list holds one entry per scored id, in the order of ids, none with the null placeholder
ListsScoredIds(list, ids) ==
    /\ \A k \in 1..Len(list) : list[k].score # Null /\ list[k].score.t = "number"
    /\ [k \in 1..Len(list) |-> list[k].id] = ScoredIds(ids)
    /\ Len(list) = Cardinality({k \in 1..Len(ids) : ids[k] \in Range(ScoredIds(ids))})
    /\ Len(list) <= Len(ids)

Listed(list, id) == \E k \in 1..Len(list) : list[k].id = id

\* for every id: a source score of 0 is listed with score 0, a null or absent one is not listed
KeepsZeroDropsMissing(list, ids) ==
    \A k \in 1..Len(ids) :
        LET e == data.audit[ids[k]]
        IN  /\ (e.t = "object" /\ e.score = Num(0)) =>
                  \E j \in 1..Len(list) : list[j].id = ids[k] /\ list[j].score = Num(0)
            /\ (e.t # "object" \/ Missing(e.score)) => ~Listed(list, ids[k])

\* C10: for each allowlisted id an audit whose score is exactly 0 is listed with score 0,
\* and an audit whose score is null or absent is not listed at all.
C10_ZeroKeptMissingDropped ==
    result.kind = "return" =>
        /\ KeepsZeroDropsMissing(result.report.seoAudits, seoAuditIds)
        /\ KeepsZeroDropsMissing(result.report.accessibilityAudits, accessibilityAuditIds)

-----------------------------------------------------------------------------
(* Properties of the resource breakdown, checked under SpecNormalize *)

\* the source items that are not 'total' rows, in source order (none when items is absent)
NonTotalItems ==
    SelectSeq(ResourceItems(data.resourceSummary), LAMBDA x : x.resourceType # "total")

\* C11: every returned report has a resourceBreakdown of at least 1 and at most 6
\* entries, whether the source items are absent, empty, all 'total' rows or more than 6
\* rows that are not 'total'.
C11_BreakdownSize ==
    result.kind = "return" =>
        /\ Len(result.report.resourceBreakdown) >= 1
        /\ Len(result.report.resourceBreakdown) <= 6

C11_Witness ==
    /\ pc = "done" /\ result.kind = "return"
    /\ Len(NonTotalItems) = 7
    /\ Len(result.report.resourceBreakdown) = 6

\* total-byte-weight numericValue in whole kilobytes, 0 when the entry or the field is missing
WeightKiloBytes ==
    LET w == data.audit["total-byte-weight"]
        bytes == IF w.t = "object" /\ w.numericValue.t = "number" THEN w.numericValue.v ELSE 0
    IN  Round(bytes, 1024 * Scale)

\* the breakdown is the one synthesized entry, with the given color
IsFallback(color) ==
    result.report.resourceBreakdown =
        <<[name |-> Str("Assets"), value |-> Num(WeightKiloBytes), color |-> color]>>

\* C12 as claimed: when no source item is left after the 'total' rows are dropped, the
\* breakdown is the single entry 'Assets' with the total-byte-weight in whole kilobytes
\* (0 when absent) and the first color of the palette.
C12_FallbackFirstColor ==
    (result.kind = "return" /\ NonTotalItems = <<>>) => IsFallback(colors[1])

\* C12 as amended: when no source item is left after the 'total' rows are dropped, the
\* breakdown is the single entry 'Assets' with the total-byte-weight in whole kilobytes
\* (0 when absent) and the fixed color '#3b82f6', which is the third color of the palette.
C12_FallbackFixedColor ==
    (result.kind = "return" /\ NonTotalItems = <<>>) =>
        IsFallback("#3b82f6") /\ colors[3] = "#3b82f6"

C12_Witness ==
    /\ pc = "done" /\ result.kind = "return"
    /\ Len(ResourceItems(data.resourceSummary)) = 2 /\ NonTotalItems = <<>>
    /\ data.audit["total-byte-weight"].numericValue = Num(1500004321)
    /\ result.report.resourceBreakdown =
          <<[name |-> Str("Assets"), value |-> Num(146), color |-> "#3b82f6"]>>

-----------------------------------------------------------------------------
(* Properties of the scores, checked under SpecNormalize *)

\* the fractional score of a source entry, scaled; 0 when the entry or its score is missing
Fraction(e) == IF e.t = "object" /\ e.score.t = "number" THEN e.score.v ELSE 0

\* n is f * 100 rounded to the nearest integer (a half goes up), for a fraction f scaled
NearestPercent(n, f) ==
    /\ 2 * (f * 100 - n * Scale) < Scale
    /\ 2 * (n * Scale - f * 100) <= Scale

\* sc is a whole number from 0 to 100, the rounded percentage of the entry's score
IsPercentOf(sc, e) == sc \in 0..100 /\ NearestPercent(sc, Fraction(e))

AuditScoresArePercents(list) ==
    \A k \in 1..Len(list) :
        list[k].score.t = "number" /\ IsPercentOf(list[k].score.v, data.audit[list[k].id])

\* C13: in every returned report each metric's score, each listed audit's score and the
\* overall score is a whole number from 0 to 100, equal to the source fractional score
\* (0 when missing) times 100, rounded to the nearest integer.
C13_ScoresArePercents ==
    (result.kind = "return" /\ Len(result.report.metrics) = 6) =>
        /\ \A k \in 1..4 :
              IsPercentOf(result.report.metrics[k].score, data.audit[MetricAuditIds[k]])
        /\ \A k \in 1..2 :
              IsPercentOf(result.report.metrics[4 + k].score, data.category[CategoryIds[k]])
        /\ IsPercentOf(result.report.overallScore, data.category["performance"])
        /\ AuditScoresArePercents(result.report.seoAudits)
        /\ AuditScoresArePercents(result.report.accessibilityAudits)

C13_Witness ==
    /\ pc = "done" /\ result.kind = "return"
    /\ data.category["performance"].score = Num(8950)
    /\ data.category["seo"].score = Num(Scale)
    /\ data.category["accessibility"].t = "undefined"
    /\ data.audit["viewport"].score = Num(8949)
    /\ result.report.overallScore = 90
    /\ result.report.metrics[1].score = 89
    /\ result.report.metrics[5].score = 100
    /\ result.report.metrics[6].score = 0
    /\ result.report.seoAudits[1].score = Num(89)

-----------------------------------------------------------------------------
(* Properties of the summarizer step, checked under Spec *)

\* what getAiAuditReport can return
SummarizerResults ==
    {"insights", "Unable to generate AI insights at this time.",
     "Error generating AI insights. Please check your connectivity and try again."}

-----------------------------------------------------------------------------
(* Properties of the order of the steps, checked under Spec *)

\* the requests of the current run that have been issued and not yet answered
InFlight == requests - Len(outcomes)

\* normalization has begun: the body of the response has been read
NormalizationStarted == data # Unread

\* C15: within a run at most one request is in flight, and no request is in flight
\* while a sleep is pending; the body is read only after fetchWithRetry returned its
\* response, with no request or sleep pending; the summarizer is called at most once,
\* only after normalization returned a report, and never when the fetch or the
\* normalization threw.
C15_StrictlySequential ==
    /\ InFlight \in {0, 1}
    /\ (InFlight = 1) <=> (pc = "fetch")
    /\ (pc = "sleep") => (InFlight = 0 /\ Len(sleeps) = Len(outcomes))
    /\ (pc # "sleep") => Len(sleeps) <= Len(outcomes)
    /\ (pc = "json" \/ NormalizationStarted) =>
          /\ InFlight = 0
          /\ Len(outcomes) >= 1
          /\ Ok(Last(outcomes))
          /\ response = Last(outcomes)
          /\ Len(sleeps) = Len(outcomes) - 1
    /\ aiCalls \in {0, 1}
    /\ (aiCalls = 1) <=> (runs >= 1 /\ result.kind = "return")
    /\ (aiCalls = 1) => (NormalizationStarted /\ data.lighthouseResult = "object")
    /\ (pc = "ai") => (aiCalls = 1 /\ InFlight = 0)
    /\ (result.kind = "throw") => (aiCalls = 0 /\ pc = "idle" /\ InFlight = 0)

C15_Witness ==
    /\ pc = "ai" /\ status = "ANALYZING_AI"
    /\ outcomes = <<RateLimitStatus, NetworkFailure, 200>>
    /\ requests = 3 /\ Len(sleeps) = 2
    /\ data.lighthouseResult = "object"
    /\ result.kind = "return"
    /\ aiCalls = 1

-----------------------------------------------------------------------------
(* Properties of a repeated normalization, checked under SpecRepeat *)

-----------------------------------------------------------------------------
(* Properties of the sleeps, checked under SpecFetch *)

\* the delay r plus k milliseconds
Plus(r, k) == <<r[1] + k * r[2], r[2]>>

\* comparison of two delays
SameDelay(a, b) == a[1] * b[2] = b[1] * a[2]
Below(a, b) == a[1] * b[2] < b[1] * a[2]

\* the base delay in force once sleep j is over; sleep j is over unless it is pending
Over(j) == j < Len(sleeps) \/ pc # "sleep"
DelayAfter(j) == IF j < Len(sleeps) THEN sleeps[j + 1].base ELSE currentBackoff

\* C17: sleep j follows answer j.  After a 429 it lasts the base delay plus a jitter from
\* 0 up to (not including) 2000, and the base delay (without the jitter) is then
\* multiplied by 2.5; after a network failure it lasts exactly the base delay, which is
\* then multiplied by 2.  While a sleep is pending the base delay is still the one slept.
C17_SleepDurations ==
    /\ Len(sleeps) <= Len(outcomes)
    /\ \A j \in 1..Len(sleeps) :
          LET e == sleeps[j]
          IN  /\ (outcomes[j] = RateLimitStatus) <=> (e.after = "429")
              /\ (outcomes[j] = NetworkFailure) <=> (e.after = "catch")
              /\ e.after \in {"429", "catch"}
              /\ (e.after = "429") =>
                    /\ e.jitter >= 0 /\ e.jitter < 2000
                    /\ SameDelay(WaitTime(e), Plus(e.base, e.jitter))
                    /\ ~Below(WaitTime(e), e.base)
                    /\ Below(WaitTime(e), Plus(e.base, 2000))
                    /\ Over(j) => Scaled(e.base, DelayAfter(j), 5, 2)
              /\ (e.after = "catch") =>
                    /\ SameDelay(WaitTime(e), e.base)
                    /\ Over(j) => Scaled(e.base, DelayAfter(j), 2, 1)
              /\ ~Over(j) => currentBackoff = e.base

C17_Witness ==
    /\ pc = "fetch"
    /\ outcomes = <<RateLimitStatus, NetworkFailure, RateLimitStatus>>
    /\ Len(sleeps) = 3
    /\ initialBackoff = 4000
    /\ sleeps[1].jitter = 1999 /\ WaitTime(sleeps[1]) = <<5999, 1>>
    /\ WaitTime(sleeps[2]) = <<10000, 1>>
    /\ sleeps[3].base = <<20000, 1>>
    /\ currentBackoff = <<50000, 1>>

-----------------------------------------------------------------------------
(* Properties of the raised error, checked under SpecFetch *)

\* every permitted attempt was answered 429 or failed at the network level
Exhausted ==
    /\ retries >= 1
    /\ Len(outcomes) = retries
    /\ \A j \in 1..Len(outcomes) : outcomes[j] \in {RateLimitStatus, NetworkFailure}

\* C18: when the attempts are exhausted by any mix of 429 answers and network failures,
\* the call throws the error of the last attempt: the rate-limit error naming attempt
\* retries of retries when the last answer was 429, the error the last request threw
\* when it failed; no error of an earlier attempt is thrown.
C18_LastSeenErrorRaised ==
    Exhausted =>
        /\ pc = "done"
        /\ result.kind = "throw"
        /\ (Last(outcomes) = RateLimitStatus) =>
              /\ result.error = RateLimitError(retries, retries)
              /\ result.error # rejected
        /\ (Last(outcomes) = NetworkFailure) =>
              /\ result.error = rejected
              /\ result.error.name = "TypeError"
              /\ result.error.message \in TransportMessages
              /\ result.error.attempt = retries
        /\ result.error.attempt = retries

C18_Witness ==
    /\ pc = "done" /\ retries = 4
    /\ outcomes = <<RateLimitStatus, NetworkFailure, NetworkFailure, RateLimitStatus>>
    /\ rejected = TransportError("Load failed", 3)
    /\ result.kind = "throw"
    /\ result.error = RateLimitError(4, 4)

\* the smaller of two numbers
Min(a, b) == IF a < b THEN a ELSE b

\* bytes in whole kilobytes, a half going up
WholeKiloBytes(bytes) == IF 2 * (bytes % 1024) >= 1024 THEN bytes \div 1024 + 1 ELSE bytes \div 1024

\* C19: when some source item is not a 'total' row, the breakdown is the first six such
\* items in source order; entry k has the item's label, its transferSize in whole
\* kilobytes and the palette color of index (k - 1) mod 6, counted after the 'total' rows
\* are dropped; no two entries of the breakdown have the same color.
C19_FirstSixInOrder ==
    (result.kind = "return" /\ Len(NonTotalItems) >= 1) =>
        LET list == result.report.resourceBreakdown
        IN  /\ Len(list) = Min(6, Len(NonTotalItems))
            /\ \A k \in 1..Len(list) :
                  /\ list[k].name = NonTotalItems[k].label
                  /\ list[k].name # Str("Total")
                  /\ list[k].value = Num(WholeKiloBytes(NonTotalItems[k].transferSize.v))
                  /\ list[k].color = colors[((k - 1) % 6) + 1]
            /\ \A a, b \in 1..Len(list) : a # b => list[a].color # list[b].color

C19_Witness ==
    /\ pc = "done" /\ result.kind = "return"
    /\ Len(ResourceItems(data.resourceSummary)) = 7
    /\ ResourceItems(data.resourceSummary)[1].resourceType = "total"
    /\ ResourceItems(data.resourceSummary)[3].resourceType = "total"
    /\ Len(NonTotalItems) = 5
    /\ Len(result.report.resourceBreakdown) = 5
    /\ result.report.resourceBreakdown[1] =
          [name |-> Str("Script"), value |-> Num(146), color |-> "#f59e0b"]
    /\ result.report.resourceBreakdown[2] =
          [name |-> Str("Image"), value |-> Num(2), color |-> "#10b981"]
    /\ result.report.resourceBreakdown[5].color = "#64748b"

-----------------------------------------------------------------------------
(* Properties of a sustained rate limit, checked under Spec *)

MaximumRateLimitMessage ==
    "Maximum rate limit reached. The Google PageSpeed API is extremely congested. Please wait 2-3 minutes and try again."

\* every answer of the run was 429 and the attempts are used up
SustainedRateLimit ==
    /\ Len(outcomes) = retries
    /\ retries >= 1
    /\ \A j \in 1..Len(outcomes) : outcomes[j] = RateLimitStatus

\* C20: the response fetchWithRetry hands to fetchLighthouseMetrics never has status 429,
\* so the message of the 429 branch of lines 86-93 is never shown; a rate limit that
\* lasts through all attempts ends the run in ERROR with the message of the retry loop.
C20_RateLimitNeverReturned ==
    /\ response # RateLimitStatus
    /\ (pc \in {"json", "errorJson"}) => (response = Last(outcomes) /\ response # 429)
    /\ result.response # RateLimitStatus
    /\ apiError # MaximumRateLimitMessage
    /\ result.error.message # MaximumRateLimitMessage
    /\ SustainedRateLimit =>
          /\ pc = "idle"
          /\ status = "ERROR"
          /\ response = 0
          /\ result.kind = "throw"
          /\ result.error = RateLimitError(retries, retries)
          /\ apiError = "The Google PageSpeed API is currently under heavy load (429)."

C20_Witness ==
    /\ pc = "idle" /\ status = "ERROR"
    /\ retries = 7 /\ Len(outcomes) = 7 /\ SustainedRateLimit
    /\ requests = 7 /\ Len(sleeps) = 6
    /\ response = 0
    /\ apiError = "The Google PageSpeed API is currently under heavy load (429)."

-----------------------------------------------------------------------------
(* Properties of the shared delay, checked under SpecFetch *)

\* the sleeps among the first n that followed a 429 / a network failure
RateLimitRetries(n) == Cardinality({j \in 1..n : sleeps[j].after = "429"})
NetworkRetries(n) == Cardinality({j \in 1..n : sleeps[j].after = "catch"})

\* the delay d is initialBackoff * 2.5^a * 2^b
IsProduct(d, a, b) == d[1] * (2 ^ a) = initialBackoff * (5 ^ a) * (2 ^ b) * d[2]

\* the sleeps that are over: all of them, but for the one pending
SleepsOver == IF pc = "sleep" THEN Len(sleeps) - 1 ELSE Len(sleeps)

\* C21: one delay serves both branches.  The base delay of sleep j is initialBackoff
\* times 2.5 for every earlier sleep after a 429 and times 2 for every earlier sleep
\* after a network failure, in whatever order they came, and so is currentBackoff once
\* the sleeps so far are over; the delay is never reset and never decreases.
C21_SharedBackoff ==
    (pc # "call") =>
        /\ \A j \in 1..Len(sleeps) :
              /\ IsProduct(sleeps[j].base, RateLimitRetries(j - 1), NetworkRetries(j - 1))
              /\ ~Below(sleeps[j].base, Rat(initialBackoff))
              /\ (j > 1) => Below(sleeps[j - 1].base, sleeps[j].base)
        /\ IsProduct(currentBackoff, RateLimitRetries(SleepsOver), NetworkRetries(SleepsOver))
        /\ ~Below(currentBackoff, Rat(initialBackoff))
        /\ (Len(sleeps) >= 1) => ~Below(currentBackoff, Last(sleeps).base)

C21_Witness ==
    /\ pc = "sleep" /\ initialBackoff = 1000
    /\ outcomes = <<NetworkFailure, RateLimitStatus, RateLimitStatus, NetworkFailure>>
    /\ sleeps[2].after = "429" /\ sleeps[2].base = <<2000, 1>>
    /\ sleeps[3].base = <<5000, 1>>
    /\ sleeps[4].after = "catch" /\ sleeps[4].base = <<12500, 1>>
    /\ currentBackoff = <<12500, 1>>

-----------------------------------------------------------------------------
(* Termination of fetchWithRetry, checked under SpecFetchFair *)

\* the call has ended in exactly one way: a response that is not a 429, or an error
EndedOneWay ==
    \/ /\ result.kind = "return"
       /\ result.error = NoError
       /\ Len(outcomes) >= 1
       /\ result.response = Last(outcomes)
       /\ result.response \notin {RateLimitStatus, NetworkFailure}
    \/ /\ result.kind = "throw"
       /\ result.response = 0
       /\ result.error # NoError
       /\ result.error.name # "null"

\* no request was made: the generic error is thrown
GenericWhenNothingCaptured ==
    (retries = 0) =>
        /\ requests = 0 /\ outcomes = <<>> /\ sleeps = <<>>
        /\ result = Thrown(GenericError)
        /\ result.error.message = "Connection failed after multiple attempts."

\* C22 as claimed: the call has ended with at most retries requests and at most
\* retries - 1 sleeps, for every retries >= 0, in one of the two ways, with the generic
\* error when retries = 0.
C22_EndsWithinAttempts ==
    (pc = "done") =>
        /\ requests <= retries
        /\ Len(sleeps) <= retries - 1
        /\ EndedOneWay
        /\ GenericWhenNothingCaptured

\* C22 as amended: when every request and every sleep completes the call ends; it never
\* issues more than retries requests, nor more sleeps than retries - 1 (none when
\* retries = 0), and it ends in one of the two ways, with the generic error when
\* retries = 0.
C22_Terminates ==
    /\ <>(pc = "done")
    /\ [](pc # "call" =>
            /\ requests <= retries
            /\ Len(sleeps) <= (IF retries = 0 THEN 0 ELSE retries - 1)
            /\ Len(sleeps) <= requests
            /\ (pc = "done") => (EndedOneWay /\ GenericWhenNothingCaptured))

C22_Witness ==
    /\ pc = "done" /\ retries = 0
    /\ requests = 0 /\ sleeps = <<>>
    /\ result.kind = "throw" /\ result.error = GenericError

====
